---- MODULE Spec2Model ----
(***************************************************************************)
(* Model of the job-orchestration engine of nws_sent (package solr):       *)
(* SolrJob.Operation with its producer stage, its pool of consumer stages, *)
(* the errgroup that joins them and the result-sink loop, together with    *)
(* the cursor puller (PullSolrData / solrPuller).                          *)
(*                                                                         *)
(* The search index and the training service are the environment: the      *)
(* initial state draws how many non-empty pages the index holds, which GET  *)
(* (if any) fails in transport and which batch (if any) the training        *)
(* service would reject.                                                    *)
(***************************************************************************)
EXTENDS Integers, Sequences, FiniteSets, TLC

\* ------------------------------------------------------------------ bounds
\* Largest number of non-empty pages the index holds before the empty page.
MaxPages == 2

\* Largest number of Containers allocated (queue nodes / submitted jobs).
MaxNodes == 3

\* Largest number of queue calls in one history.
MaxOps == 5

\* Largest number of registered search-index connections.
MaxSolr == 2

\* Largest number of locked calls made while goroutines push concurrently.
MaxRacingCalls == 2

\* Number of goroutines calling the queue concurrently.
NumThreads == 2

\* Largest job id whose status is rewritten while requests are handled.
MaxRewritten == 2

\* ------------------------------------------------------- program constants
\* Width of the consumer pool: for i := 0; i < 10; i++ { g.Go(...) }
NumConsumers == 10

Consumers == 1..NumConsumers

\* SolrJobStatus values (const block of the job file).
INIT      == "INIT"
RUNNING   == "RUNNING"
COMPLETED == "COMPLETED"
FAILED    == "FAILED"
PENDING   == "PENDING"

\* The sentinel cursor Operation starts the puller with.
Sentinel == "*"

\* Error values.  Nil is Go's nil error.
Nil                   == "nil"
TransportError        == "TransportError"          \* http.Get / body read failed
InvalidUnmarshalError == "InvalidUnmarshalError"   \* json: Unmarshal(non-pointer ...)
NoMoreDocuments       == "No more documents to fetch"
PostError             == "PostError"               \* http.Post / body read failed
Canceled              == "context canceled"        \* ctx.Err() after cancel

\* The zero values solrPuller returns besides an error.
ZeroMark  == ""
ZeroBatch == 0

\* --------------------------------------------------------------- variables
VARIABLES
    numPages,     \* environment: non-empty pages held by the index
    getFailAt,    \* environment: ordinal of the GET that fails (0: none)
    postFailAt,   \* environment: page whose batch the service rejects (0: none)
    noTokenAt,    \* environment: page whose response carries no nextCursorMark (0: none)
    jobStatus,    \* Status field of the *SolrJob held by the registry
    jobErrorMessage, \* ErrorMessage field of the *SolrJob held by the registry
    opStatus,     \* Status field of Operation's receiver (a copy of the job)
    pcMain,       \* position of the goroutine that called Operation
    retErr,       \* value Operation returned
    pcProd,       \* position of the producer stage
    cursor,       \* argument of the pending PullSolrData call
    prodData,     \* batch the producer is offering on trainData
    prodErr,      \* value the producer function returned
    tdClosed,     \* close(trainData) has run
    pcCons,       \* position of each consumer stage
    consData,     \* batch held by each consumer
    gErr,         \* errgroup: first non-nil error returned by a stage
    ctxDone,      \* errgroup context has been cancelled
    pcWaiter,     \* position of go func() { g.Wait() }()
    requested,    \* history: cursors passed to getSolrUrl, in order
    called,       \* history: arguments of every call of the callback fn
    sent,         \* history: batches handed over on trainData, in order
    posted,       \* history: batches POSTed to /stream/train, in order
    postedAfterFail, \* history: POSTs begun after the first POST failure
    printed,      \* history: number of results the sink loop received
    pcJobInit,    \* position of the caller inside SolrJob.Init
    initRet,      \* value the last SolrJob.Init call returned
    initCalls,    \* history: remote calls the current/last Init call issued
    q,            \* core.Queue and the Containers allocated so far
    hist,         \* history: queue calls made so far with their results
    thr,          \* goroutines that call the queue concurrently
    solrReg,      \* Manager.solr: number of registered connections (ids 1..n)
    jobReg,       \* solr.SolrJobManager: job id -> job
    resp          \* last request handled by the Manager and its response

vars == << numPages, getFailAt, postFailAt, noTokenAt, jobStatus, jobErrorMessage,
           opStatus, pcMain, retErr, pcProd, cursor, prodData, prodErr,
           tdClosed, pcCons, consData, gErr, ctxDone, pcWaiter,
           requested, called, sent, posted, postedAfterFail, printed,
           pcJobInit, initRet, initCalls,
           q, hist, thr, solrReg, jobReg, resp >>

envVars  == << numPages, getFailAt, postFailAt, noTokenAt >>
jobVars  == << jobStatus, jobErrorMessage >>
mainVars == << opStatus, pcMain, retErr >>
prodVars == << pcProd, cursor, prodData, prodErr, tdClosed >>
consVars == << pcCons, consData >>
histVars == << requested, called, sent, posted, postedAfterFail, printed >>
lifeVars == << pcJobInit, initRet, initCalls >>
ctlVars  == << q, hist, thr, solrReg, jobReg, resp >>

\* ------------------------------------------------------------- environment
\* Cursor token the index puts in the response for page p.
Token(p) == CASE p = 1 -> "c1" [] p = 2 -> "c2" [] p = 3 -> "c3"
              [] p = 4 -> "c4" [] OTHER -> "c5"

\* Page the index serves for a cursor: the sentinel starts at page 1, the
\* token of page p continues at page p + 1; a cursor the index never handed
\* out selects nothing.
PageOf(cur) == IF cur = Sentinel THEN 1
               ELSE IF \E p \in 1..(MaxPages + 2) : Token(p) = cur
               THEN 1 + (CHOOSE p \in 1..(MaxPages + 2) : Token(p) = cur)
               ELSE MaxPages + 3

\* Body the index answers with: the docs of the page (identified by the page
\* number, 0 for an empty docs array) and the next cursor token, which is
\* missing from the params of page noTokenAt.
IndexBody(cur, n) ==
    LET p == PageOf(cur) IN
    IF p <= n THEN [docs |-> p, next |-> IF p = noTokenAt THEN ZeroMark ELSE Token(p)]
    ELSE [docs |-> 0, next |-> cur]

\* core.GetRequest: the k-th GET of the run fails iff the environment says so.
GetRequest(cur, k, n, failAt) ==
    IF k = failAt THEN [data |-> [docs |-> 0, next |-> ZeroMark], err |-> TransportError]
    ELSE [data |-> IndexBody(cur, n), err |-> Nil]

\* encoding/json.Unmarshal(data, v): v must be a non-nil pointer, otherwise the
\* call returns *InvalidUnmarshalError and stores nothing.
Unmarshal(data, isPointer) ==
    IF isPointer THEN [v |-> data, err |-> Nil]
    ELSE [v |-> [docs |-> 0, next |-> ZeroMark], err |-> InvalidUnmarshalError]

\* Variant: the address &solrResponse is passed.
SolrResponseArgByAddress == TRUE

\* solrPuller passes the struct value solrResponse, not its address.
SolrResponseArgIsPointer == FALSE

\* SolrJob.solrPuller: one select query for cursorMark, the k-th of the run.
solrPuller(cursorMark, k, n, failAt) ==
    LET get == GetRequest(cursorMark, k, n, failAt)
        um  == Unmarshal(get.data, SolrResponseArgIsPointer)
    IN  IF get.err # Nil THEN [mark |-> ZeroMark, data |-> ZeroBatch, err |-> get.err]
        ELSE IF um.err # Nil THEN [mark |-> ZeroMark, data |-> ZeroBatch, err |-> um.err]
        ELSE IF um.v.docs = 0
             THEN [mark |-> ZeroMark, data |-> ZeroBatch, err |-> NoMoreDocuments]
        ELSE [mark |-> um.v.next, data |-> um.v.docs, err |-> Nil]

\* The callback Operation hands to PullSolrData: an error is returned as it
\* is, a batch goes to the select that offers it on trainData.
fn(err) == IF err # Nil THEN "return" ELSE "send"

\* SolrJob.trainEngineOperation: POST of one batch to /stream/train.
trainEngineOperation(data, failAt) ==
    IF data = failAt /\ failAt # 0 THEN PostError ELSE Nil

\* The results channel c is never closed: Operation has no close(c).
ResultsClosed == FALSE

\* errgroup.Group: every function passed to Go has returned.
AllStagesDone == pcProd = "done" /\ \A i \in Consumers : pcCons[i] = "done"

\* errgroup.Group.Go wrapper: the first non-nil error is kept (errOnce).
errOnce(old, err) == IF old = Nil /\ err # Nil THEN err ELSE old

\* -------------------------------------------------------------------- Init
\* A job created by GetSolrJob (PENDING, no error message) and registered;
\* nobody has called Operation yet.
PipeInit ==
    /\ numPages \in 0..MaxPages
    /\ getFailAt \in 0..(MaxPages + 1)
    /\ getFailAt <= numPages + 1
    /\ postFailAt \in 0..MaxPages
    /\ postFailAt <= numPages
    /\ noTokenAt \in 0..MaxPages
    /\ noTokenAt <= numPages
    /\ jobStatus = PENDING
    /\ jobErrorMessage = ""
    /\ opStatus = PENDING
    /\ pcMain = "idle"
    /\ retErr = Nil
    /\ pcProd = "idle"
    /\ cursor = ""
    /\ prodData = ZeroBatch
    /\ prodErr = Nil
    /\ tdClosed = FALSE
    /\ pcCons = [i \in Consumers |-> "idle"]
    /\ consData = [i \in Consumers |-> ZeroBatch]
    /\ gErr = Nil
    /\ ctxDone = FALSE
    /\ pcWaiter = "idle"
    /\ requested = << >>
    /\ called = << >>
    /\ sent = << >>
    /\ posted = << >>
    /\ postedAfterFail = 0
    /\ printed = 0

\* Nobody is inside SolrJob.Init.
LifeInit ==
    /\ pcJobInit = "idle"
    /\ initRet = Nil
    /\ initCalls = << >>

Nodes   == 1..MaxNodes
Threads == 1..NumThreads

\* A nil *Container.
NilNode == 0

\* Payload of a Container that was never allocated.
NoValue == [kind |-> "none", id |-> 0]

\* core.NewQueue: front and back nil, size 0; no Container allocated yet.
NewQueue ==
    [front |-> NilNode, back |-> NilNode, size |-> 0, n |-> 0,
     prv  |-> [c \in Nodes |-> NilNode],
     next |-> [c \in Nodes |-> NilNode],
     val  |-> [c \in Nodes |-> NoValue]]

\* The Manager right after GetManagerInstance, with an empty queue and an
\* empty job registry; no goroutine is inside a queue call.
CtlInit ==
    /\ q = NewQueue
    /\ hist = << >>
    /\ thr = [t \in Threads |-> [pc |-> "idle", node |-> NilNode, tmp |-> 0]]
    /\ solrReg = 0
    /\ jobReg = << >>
    /\ resp = [op |-> "none", arg |-> 0, kind |-> "none", jobId |-> 0, status |-> ""]

Init == PipeInit /\ LifeInit /\ CtlInit

\* ----------------------------------------------------------------- actions
\* The goroutine that calls j.Operation() on the registered job.  Operation
\* has a value receiver: s is a copy, so every s.Status = ... below writes
\* opStatus and leaves the registered job alone.
Operation ==
    /\ \/ pcMain = "idle"
       \/ pcMain = "sink" /\ ResultsClosed
       \/ pcMain = "wait" /\ AllStagesDone
    /\ IF pcMain = "idle"
       THEN \* s.Status = RUNNING; errgroup.WithContext; g.Go x 11; go g.Wait()
            /\ opStatus' = RUNNING
            /\ pcMain' = "sink"
            /\ pcProd' = "pull"
            /\ cursor' = Sentinel
            /\ pcCons' = [i \in Consumers |-> "recv"]
            /\ pcWaiter' = "wait"
            /\ UNCHANGED << retErr, ctxDone >>
       ELSE IF pcMain = "sink"
       THEN \* for r := range c ends only when c is closed
            /\ pcMain' = "wait"
            /\ UNCHANGED << opStatus, retErr, pcProd, cursor, pcCons, pcWaiter, ctxDone >>
       ELSE \* if err := g.Wait(); err != nil { FAILED } else { COMPLETED }
            /\ opStatus' = IF gErr # Nil THEN FAILED ELSE COMPLETED
            /\ retErr' = gErr
            /\ ctxDone' = TRUE
            /\ pcMain' = "returned"
            /\ UNCHANGED << pcProd, cursor, pcCons, pcWaiter >>
    /\ UNCHANGED << envVars, lifeVars, ctlVars, jobVars, prodData, prodErr, tdClosed, consData, gErr, histVars >>

\* Variant of the producer stage without the deferred close(trainData).
ProducerWithoutClose ==
    /\ \/ pcProd = "pull"
       \/ pcProd = "send" /\ ctxDone
       \/ pcProd \in {"sent", "exit"}
    /\ IF pcProd = "pull"
       THEN LET r == solrPuller(cursor, Len(requested) + 1, numPages, getFailAt) IN
            /\ requested' = Append(requested, cursor)
            /\ IF r.err # Nil
               THEN \* err = fn(traindata, err)
                    /\ called' = Append(called, [data |-> r.data, err |-> r.err])
                    /\ IF fn(r.err) = "return"
                       THEN /\ pcProd' = "exit"
                            /\ prodErr' = r.err
                            /\ UNCHANGED tdClosed
                            /\ UNCHANGED << cursor, prodData >>
                       ELSE /\ pcProd' = "send"
                            /\ prodData' = r.data
                            /\ UNCHANGED << cursor, prodErr, tdClosed >>
               ELSE \* err = s.PullSolrData(mark, fn)
                    /\ cursor' = r.mark
                    /\ UNCHANGED << pcProd, prodData, prodErr, tdClosed, called >>
            /\ UNCHANGED << gErr, ctxDone >>
       ELSE IF pcProd = "send"
       THEN \* case <-ctx.Done(): return ctx.Err()
            /\ pcProd' = "exit"
            /\ prodErr' = Canceled
            /\ UNCHANGED tdClosed
            /\ UNCHANGED << cursor, prodData, gErr, ctxDone, requested, called >>
       ELSE IF pcProd = "sent"
       THEN \* return nil
            /\ pcProd' = "exit"
            /\ prodErr' = Nil
            /\ UNCHANGED tdClosed
            /\ UNCHANGED << cursor, prodData, gErr, ctxDone, requested, called >>
       ELSE \* errgroup: record the first error and cancel, then wg.Done
            /\ pcProd' = "done"
            /\ gErr' = errOnce(gErr, prodErr)
            /\ ctxDone' = (ctxDone \/ prodErr # Nil)
            /\ UNCHANGED << cursor, prodData, prodErr, tdClosed, requested, called >>
    /\ UNCHANGED << envVars, lifeVars, ctlVars, jobVars, mainVars, consVars, pcWaiter,
                    sent, posted, postedAfterFail, printed >>

\* Stage A: the producer goroutine.
\*   "pull"  one call of PullSolrData(cursor, fn)
\*   "send"  blocked in fn's select { trainData <- data; <-ctx.Done() }
\*   "sent"  a consumer took the batch; fn returns nil
\*   "exit"  the function returned prodErr and the deferred close has run
Producer ==
    /\ \/ pcProd = "pull"
       \/ pcProd = "send" /\ ctxDone
       \/ pcProd \in {"sent", "exit"}
    /\ IF pcProd = "pull"
       THEN LET r == solrPuller(cursor, Len(requested) + 1, numPages, getFailAt) IN
            /\ requested' = Append(requested, cursor)
            /\ IF r.err # Nil
               THEN \* err = fn(traindata, err)
                    /\ called' = Append(called, [data |-> r.data, err |-> r.err])
                    /\ IF fn(r.err) = "return"
                       THEN /\ pcProd' = "exit"
                            /\ prodErr' = r.err
                            /\ tdClosed' = TRUE
                            /\ UNCHANGED << cursor, prodData >>
                       ELSE /\ pcProd' = "send"
                            /\ prodData' = r.data
                            /\ UNCHANGED << cursor, prodErr, tdClosed >>
               ELSE \* err = s.PullSolrData(mark, fn)
                    /\ cursor' = r.mark
                    /\ UNCHANGED << pcProd, prodData, prodErr, tdClosed, called >>
            /\ UNCHANGED << gErr, ctxDone >>
       ELSE IF pcProd = "send"
       THEN \* case <-ctx.Done(): return ctx.Err()
            /\ pcProd' = "exit"
            /\ prodErr' = Canceled
            /\ tdClosed' = TRUE
            /\ UNCHANGED << cursor, prodData, gErr, ctxDone, requested, called >>
       ELSE IF pcProd = "sent"
       THEN \* return nil
            /\ pcProd' = "exit"
            /\ prodErr' = Nil
            /\ tdClosed' = TRUE
            /\ UNCHANGED << cursor, prodData, gErr, ctxDone, requested, called >>
       ELSE \* errgroup: record the first error and cancel, then wg.Done
            /\ pcProd' = "done"
            /\ gErr' = errOnce(gErr, prodErr)
            /\ ctxDone' = (ctxDone \/ prodErr # Nil)
            /\ UNCHANGED << cursor, prodData, prodErr, tdClosed, requested, called >>
    /\ UNCHANGED << envVars, lifeVars, ctlVars, jobVars, mainVars, consVars, pcWaiter,
                    sent, posted, postedAfterFail, printed >>

\* The cases of the consumer's select that are ready.
SelectReady == (IF pcMain = "sink" THEN {"send"} ELSE {})
               \cup (IF ctxDone THEN {"cancel"} ELSE {})

\* Stage B: consumer goroutine i.
\*   "recv"  for data := range trainData
\*   "post"  res, err := s.trainEngineOperation(data)
\*   "fwd"   select { c <- res; <-ctx.Done(); default }
Consumer(i) ==
    /\ \/ pcCons[i] = "recv" /\ (pcProd = "send" \/ tdClosed)
       \/ pcCons[i] \in {"post", "fwd"}
    /\ IF pcCons[i] = "recv"
       THEN IF pcProd = "send"
            THEN \* rendezvous with the producer's send
                 /\ consData' = [consData EXCEPT ![i] = prodData]
                 /\ sent' = Append(sent, prodData)
                 /\ pcProd' = "sent"
                 /\ pcCons' = [pcCons EXCEPT ![i] = "post"]
                 /\ UNCHANGED << gErr, ctxDone, posted, postedAfterFail, printed >>
            ELSE \* channel closed: the range loop ends, return nil
                 /\ pcCons' = [pcCons EXCEPT ![i] = "done"]
                 /\ UNCHANGED << consData, sent, pcProd, gErr, ctxDone,
                                 posted, postedAfterFail, printed >>
       ELSE IF pcCons[i] = "post"
       THEN LET err == trainEngineOperation(consData[i], postFailAt) IN
            /\ posted' = Append(posted, consData[i])
            /\ postedAfterFail' = IF gErr = PostError THEN postedAfterFail + 1
                                  ELSE postedAfterFail
            /\ IF err # Nil
               THEN /\ pcCons' = [pcCons EXCEPT ![i] = "done"]
                    /\ gErr' = errOnce(gErr, err)
                    /\ ctxDone' = TRUE
               ELSE /\ pcCons' = [pcCons EXCEPT ![i] = "fwd"]
                    /\ UNCHANGED << gErr, ctxDone >>
            /\ UNCHANGED << consData, sent, pcProd, printed >>
       ELSE \E choice \in (IF SelectReady = {} THEN {"default"} ELSE SelectReady) :
            /\ IF choice = "send"
               THEN \* the sink loop receives and prints the result
                    /\ printed' = printed + 1
                    /\ pcCons' = [pcCons EXCEPT ![i] = "recv"]
                    /\ UNCHANGED << gErr, ctxDone >>
               ELSE IF choice = "cancel"
               THEN \* return ctx.Err()
                    /\ pcCons' = [pcCons EXCEPT ![i] = "done"]
                    /\ gErr' = errOnce(gErr, Canceled)
                    /\ ctxDone' = TRUE
                    /\ UNCHANGED printed
               ELSE \* default: drop the result and take the next batch
                    /\ pcCons' = [pcCons EXCEPT ![i] = "recv"]
                    /\ UNCHANGED << gErr, ctxDone, printed >>
            /\ UNCHANGED << consData, sent, pcProd, posted, postedAfterFail >>
    /\ UNCHANGED << envVars, lifeVars, ctlVars, jobVars, mainVars, cursor, prodData, prodErr,
                    tdClosed, pcWaiter, requested, called >>

\* go func() { g.Wait() }(): returns when every stage has, and cancels ctx.
Waiter ==
    /\ pcWaiter = "wait"
    /\ AllStagesDone
    /\ pcWaiter' = "done"
    /\ ctxDone' = TRUE
    /\ UNCHANGED << envVars, lifeVars, ctlVars, jobVars, mainVars, prodVars, consVars, gErr, histVars >>

Next ==
    \/ Operation
    \/ Producer
    \/ \E i \in Consumers : Consumer(i)
    \/ Waiter

Spec == Init /\ [][Next]_vars

\* The Go scheduler runs every goroutine that can take a step.
FairSpec ==
    /\ Spec
    /\ WF_vars(Operation)
    /\ WF_vars(Producer)
    /\ \A i \in Consumers : WF_vars(Consumer(i))
    /\ WF_vars(Waiter)

\* ------------------------------------------------------------------- types
TypeOK ==
    /\ numPages \in 0..MaxPages
    /\ jobStatus \in {INIT, RUNNING, COMPLETED, FAILED, PENDING}
    /\ opStatus \in {INIT, RUNNING, COMPLETED, FAILED, PENDING}
    /\ pcMain \in {"idle", "sink", "wait", "returned"}
    /\ pcProd \in {"idle", "pull", "send", "sent", "exit", "done"}
    /\ \A i \in Consumers : pcCons[i] \in {"idle", "recv", "post", "fwd", "done"}
    /\ pcWaiter \in {"idle", "wait", "done"}
    /\ tdClosed \in BOOLEAN
    /\ ctxDone \in BOOLEAN


\* ------------------------------------------------------------ job lifecycle
Statuses == {INIT, RUNNING, COMPLETED, FAILED, PENDING}

pipeVars == << mainVars, prodVars, consVars, gErr, ctxDone, pcWaiter, histVars >>

\* Init passes the struct value isRunning, not its address.
TrainingStatusArgIsPointer == FALSE

\* json.Unmarshal(data, isRunning) for a payload {running: b}: without a
\* pointer nothing is stored (Running keeps its zero value) and the call
\* returns *InvalidUnmarshalError.
UnmarshalStatus(running, isPointer) ==
    IF isPointer THEN [running |-> running, err |-> Nil]
    ELSE [running |-> FALSE, err |-> InvalidUnmarshalError]

\* SolrJob.SetStatus: an exported method that stores whatever it is given in
\* the job it is called on.
SetStatus(newStatus) ==
    /\ jobStatus' = newStatus
    /\ UNCHANGED << envVars, ctlVars, jobErrorMessage, pipeVars, lifeVars >>

\* Variant of Init that puts the status back to PENDING on its error returns
\* as well.
JobInitResetsOnError ==
    /\ IF pcJobInit = "idle"
       THEN /\ jobStatus' = INIT
            /\ pcJobInit' = "get"
            /\ initCalls' = << >>
            /\ initRet' = Nil
       ELSE IF pcJobInit = "get"
       THEN \E getOk \in BOOLEAN, running \in BOOLEAN :
            LET um == UnmarshalStatus(running, TrainingStatusArgIsPointer) IN
            /\ initCalls' = Append(initCalls, "GET /stream/status")
            /\ IF ~getOk
               THEN /\ pcJobInit' = "idle"
                    /\ initRet' = TransportError
                    /\ jobStatus' = PENDING
               ELSE IF um.err # Nil
               THEN /\ pcJobInit' = "idle"
                    /\ initRet' = um.err
                    /\ jobStatus' = PENDING
               ELSE IF um.running = FALSE
               THEN /\ pcJobInit' = "start"
                    /\ UNCHANGED << initRet, jobStatus >>
               ELSE /\ pcJobInit' = "idle"
                    /\ initRet' = Nil
                    /\ jobStatus' = PENDING
       ELSE \E postOk \in BOOLEAN :
            /\ initCalls' = Append(initCalls, "POST /stream/start")
            /\ pcJobInit' = "idle"
            /\ IF ~postOk
               THEN /\ initRet' = PostError
                    /\ jobStatus' = PENDING
               ELSE /\ initRet' = Nil
                    /\ jobStatus' = PENDING
    /\ UNCHANGED << envVars, ctlVars, jobErrorMessage, pipeVars >>

\* SolrJob.Init (pointer receiver: it writes the registered job).
\*   "idle"   s.SetStatus(INIT)
\*   "get"    core.GetRequest(/stream/status), json.Unmarshal
\*   "start"  core.PostRequest(/stream/start), s.Status = PENDING
\* The answers of the training service are chosen by the environment.
JobInit ==
    /\ IF pcJobInit = "idle"
       THEN /\ jobStatus' = INIT
            /\ pcJobInit' = "get"
            /\ initCalls' = << >>
            /\ initRet' = Nil
       ELSE IF pcJobInit = "get"
       THEN \E getOk \in BOOLEAN, running \in BOOLEAN :
            LET um == UnmarshalStatus(running, TrainingStatusArgIsPointer) IN
            /\ initCalls' = Append(initCalls, "GET /stream/status")
            /\ IF ~getOk
               THEN /\ pcJobInit' = "idle"
                    /\ initRet' = TransportError
                    /\ UNCHANGED jobStatus
               ELSE IF um.err # Nil
               THEN /\ pcJobInit' = "idle"
                    /\ initRet' = um.err
                    /\ UNCHANGED jobStatus
               ELSE IF um.running = FALSE
               THEN /\ pcJobInit' = "start"
                    /\ UNCHANGED << initRet, jobStatus >>
               ELSE /\ pcJobInit' = "idle"
                    /\ initRet' = Nil
                    /\ jobStatus' = PENDING
       ELSE \E postOk \in BOOLEAN :
            /\ initCalls' = Append(initCalls, "POST /stream/start")
            /\ pcJobInit' = "idle"
            /\ IF ~postOk
               THEN /\ initRet' = PostError
                    /\ UNCHANGED jobStatus
               ELSE /\ initRet' = Nil
                    /\ jobStatus' = PENDING
    /\ UNCHANGED << envVars, ctlVars, jobErrorMessage, pipeVars >>

\* One job on which callers invoke Init, Operation and SetStatus in any order;
\* the index is empty and reachable.
LifecycleInit == Init /\ numPages = 0 /\ getFailAt = 0

LifecycleNext ==
    \/ Next
    \/ JobInit
    \/ \E newStatus \in Statuses : SetStatus(newStatus)

LifecycleSpec == LifecycleInit /\ [][LifecycleNext]_vars

\* One job on which Init and Operation are called and nothing else writes the
\* status.
InitRunNext ==
    \/ Next
    \/ JobInit

InitRunSpec == LifecycleInit /\ [][InitRunNext]_vars

\* -------------------------------------------------------------- work queue
\* What a Container can hold in Value: a job (the *SolrJob SubmitJob wraps)
\* or a value of type core.Container.
Kinds == {"job", "container"}

\* core.GetContainer(value): a fresh Container with nil links.  Its number
\* identifies the item.
GetContainer(qq, value) ==
    [qq EXCEPT !.n = @ + 1, !.val[qq.n + 1] = value]

\* Queue.PushBack(value), run without interruption.
PushBack(qq, c) ==
    IF qq.back = NilNode
    THEN [qq EXCEPT !.front = c, !.back = c, !.size = @ + 1]
    ELSE [qq EXCEPT !.prv[c] = qq.back, !.next[qq.back] = c, !.back = c,
                    !.size = @ + 1]

\* Queue.PushFront(value): on an empty queue it returns before q.size += 1.
PushFront(qq, c) ==
    IF qq.front = NilNode
    THEN [qq EXCEPT !.back = c, !.front = c]
    ELSE [qq EXCEPT !.next[c] = qq.front, !.prv[qq.front] = c, !.front = c,
                    !.size = @ + 1]

\* The type assertion Value.(Container) of PopFront, PopBack and the peeks
\* succeeds only for a payload of type Container; it panics otherwise.
IsContainer(value) == value.kind = "container"

\* Variant of PopFront that decrements size before it looks at front.
PopFrontCountsFirst(qq) ==
    IF qq.front = NilNode
    THEN [q |-> [qq EXCEPT !.size = @ - 1], res |-> "empty", item |-> 0]
    ELSE IF ~IsContainer(qq.val[qq.front])
    THEN [q |-> qq, res |-> "panic", item |-> 0]
    ELSE LET f  == qq.front
             nf == qq.next[f]
         IN  [q |-> IF nf # NilNode
                    THEN [qq EXCEPT !.front = nf, !.prv[nf] = NilNode, !.size = @ - 1]
                    ELSE [qq EXCEPT !.front = nf, !.back = NilNode, !.size = @ - 1],
              res |-> "found", item |-> f]

\* Queue.PopFront: the queue afterwards, the outcome ("empty": found=false,
\* "found": found=true, "panic": the type assertion failed) and the item.
PopFront(qq) ==
    IF qq.front = NilNode
    THEN [q |-> qq, res |-> "empty", item |-> 0]
    ELSE IF ~IsContainer(qq.val[qq.front])
    THEN [q |-> qq, res |-> "panic", item |-> 0]
    ELSE LET f  == qq.front
             nf == qq.next[f]
         IN  [q |-> IF nf # NilNode
                    THEN [qq EXCEPT !.front = nf, !.prv[nf] = NilNode, !.size = @ - 1]
                    ELSE [qq EXCEPT !.front = nf, !.back = NilNode, !.size = @ - 1],
              res |-> "found", item |-> f]

\* Variant of PopBack that leaves front alone when it removes the last node.
PopBackKeepsFront(qq) ==
    IF qq.back = NilNode
    THEN [q |-> qq, res |-> "empty", item |-> 0]
    ELSE IF ~IsContainer(qq.val[qq.back])
    THEN [q |-> qq, res |-> "panic", item |-> 0]
    ELSE LET b  == qq.back
             nb == qq.prv[b]
         IN  [q |-> IF nb # NilNode
                    THEN [qq EXCEPT !.back = nb, !.next[nb] = NilNode, !.size = @ - 1]
                    ELSE [qq EXCEPT !.back = nb, !.size = @ - 1],
              res |-> "found", item |-> b]

\* Queue.PopBack.
PopBack(qq) ==
    IF qq.back = NilNode
    THEN [q |-> qq, res |-> "empty", item |-> 0]
    ELSE IF ~IsContainer(qq.val[qq.back])
    THEN [q |-> qq, res |-> "panic", item |-> 0]
    ELSE LET b  == qq.back
             nb == qq.prv[b]
         IN  [q |-> IF nb # NilNode
                    THEN [qq EXCEPT !.back = nb, !.next[nb] = NilNode, !.size = @ - 1]
                    ELSE [qq EXCEPT !.back = nb, !.front = NilNode, !.size = @ - 1],
              res |-> "found", item |-> b]

\* Queue.IsEmpty and Queue.Size.
IsEmpty(qq) == qq.front = NilNode
Size(qq)    == qq.size

\* One more call fits into the history.
CanCall == Len(hist) < MaxOps

Record(op, res, item) == Append(hist, [op |-> op, res |-> res, item |-> item])

nonQueueVars == << envVars, jobVars, pipeVars, lifeVars, thr, solrReg, jobReg, resp >>

\* A caller wraps a payload with GetContainer and pushes it at the back.
QPushBack(kind) ==
    /\ CanCall /\ q.n < MaxNodes
    /\ LET c == q.n + 1 IN
       /\ q' = PushBack(GetContainer(q, [kind |-> kind, id |-> c]), c)
       /\ hist' = Record("PushBack", "ok", c)
    /\ UNCHANGED nonQueueVars

QPushFront(kind) ==
    /\ CanCall /\ q.n < MaxNodes
    /\ LET c == q.n + 1 IN
       /\ q' = PushFront(GetContainer(q, [kind |-> kind, id |-> c]), c)
       /\ hist' = Record("PushFront", "ok", c)
    /\ UNCHANGED nonQueueVars

QPopFront ==
    /\ CanCall
    /\ LET r == PopFront(q) IN
       /\ q' = r.q
       /\ hist' = Record("PopFront", r.res, r.item)
    /\ UNCHANGED nonQueueVars

QPopBack ==
    /\ CanCall
    /\ LET r == PopBack(q) IN
       /\ q' = r.q
       /\ hist' = Record("PopBack", r.res, r.item)
    /\ UNCHANGED nonQueueVars

QIsEmpty ==
    /\ CanCall
    /\ hist' = Record("IsEmpty", IF IsEmpty(q) THEN "true" ELSE "false", 0)
    /\ UNCHANGED << q, nonQueueVars >>

QSize ==
    /\ CanCall
    /\ hist' = Record("Size", "ok", Size(q))
    /\ UNCHANGED << q, nonQueueVars >>

\* A single caller using the queue; the job pipeline is not running.
QueueInit == Init /\ numPages = 0 /\ getFailAt = 0

QueueNext ==
    \/ \E kind \in Kinds : QPushBack(kind)
    \/ \E kind \in Kinds : QPushFront(kind)
    \/ QPopFront
    \/ QPopBack
    \/ QIsEmpty
    \/ QSize

QueueSpec == QueueInit /\ [][QueueNext]_vars

\* Variant of PeekFront that looks at the back node.
PeekFrontReadsBack(qq) ==
    IF qq.front = NilNode THEN [res |-> "empty", item |-> 0]
    ELSE IF ~IsContainer(qq.val[qq.back]) THEN [res |-> "panic", item |-> 0]
    ELSE [res |-> "found", item |-> qq.back]

\* Queue.PeekFront: the outcome and the item, as for PopFront; the queue is
\* only read.
PeekFront(qq) ==
    IF qq.front = NilNode THEN [res |-> "empty", item |-> 0]
    ELSE IF ~IsContainer(qq.val[qq.front]) THEN [res |-> "panic", item |-> 0]
    ELSE [res |-> "found", item |-> qq.front]

\* Queue.PeekBack.
PeekBack(qq) ==
    IF qq.back = NilNode THEN [res |-> "empty", item |-> 0]
    ELSE IF ~IsContainer(qq.val[qq.back]) THEN [res |-> "panic", item |-> 0]
    ELSE [res |-> "found", item |-> qq.back]

QPeekFront ==
    /\ CanCall
    /\ LET r == PeekFront(q) IN hist' = Record("PeekFront", r.res, r.item)
    /\ UNCHANGED << q, nonQueueVars >>

QPeekBack ==
    /\ CanCall
    /\ LET r == PeekBack(q) IN hist' = Record("PeekBack", r.res, r.item)
    /\ UNCHANGED << q, nonQueueVars >>

\* A single caller that also peeks at both ends.
PeekQueueNext ==
    \/ QueueNext
    \/ QPeekFront
    \/ QPeekBack

PeekQueueSpec == QueueInit /\ [][PeekQueueNext]_vars

\* ---------------------------------------------------- concurrent queue use
\* Queue.PushBack takes no lock, so its reads and writes of front, back, the
\* links and size interleave with every other call.  Goroutine t runs
\*   "idle"   value := GetContainer(payload)
\*   "test"   if q.back == nil
\*   "front"  q.front = value
\*   "back"   q.back = q.front
\*   "prv"    value.prv = q.back
\*   "next"   q.back.next = newContainer   (nil dereference if back is nil)
\*   "back2"  q.back = newContainer
\*   "rd"     read of q.size
\*   "wr"     write of q.size
PushBackStep(t) ==
    LET me == thr[t]
        c  == me.node
    IN
    /\ me.pc # "panic"
    /\ me.pc = "idle" => q.n < MaxNodes
    /\ IF me.pc = "idle"
       THEN /\ q' = GetContainer(q, [kind |-> "container", id |-> q.n + 1])
            /\ thr' = [thr EXCEPT ![t] = [pc |-> "test", node |-> q.n + 1, tmp |-> 0]]
       ELSE IF me.pc = "test"
       THEN /\ thr' = [thr EXCEPT ![t].pc = IF q.back = NilNode THEN "front" ELSE "prv"]
            /\ UNCHANGED q
       ELSE IF me.pc = "front"
       THEN /\ q' = [q EXCEPT !.front = c]
            /\ thr' = [thr EXCEPT ![t].pc = "back"]
       ELSE IF me.pc = "back"
       THEN /\ q' = [q EXCEPT !.back = q.front]
            /\ thr' = [thr EXCEPT ![t].pc = "rd"]
       ELSE IF me.pc = "prv"
       THEN /\ q' = [q EXCEPT !.prv[c] = q.back]
            /\ thr' = [thr EXCEPT ![t].pc = "next"]
       ELSE IF me.pc = "next"
       THEN IF q.back = NilNode
            THEN /\ thr' = [thr EXCEPT ![t].pc = "panic"]
                 /\ UNCHANGED q
            ELSE /\ q' = [q EXCEPT !.next[q.back] = c]
                 /\ thr' = [thr EXCEPT ![t].pc = "back2"]
       ELSE IF me.pc = "back2"
       THEN /\ q' = [q EXCEPT !.back = c]
            /\ thr' = [thr EXCEPT ![t].pc = "rd"]
       ELSE IF me.pc = "rd"
       THEN /\ thr' = [thr EXCEPT ![t].pc = "wr", ![t].tmp = q.size]
            /\ UNCHANGED q
       ELSE /\ q' = [q EXCEPT !.size = me.tmp + 1]
            /\ thr' = [thr EXCEPT ![t] = [pc |-> "idle", node |-> NilNode, tmp |-> 0]]
    /\ UNCHANGED << envVars, jobVars, pipeVars, lifeVars, hist, solrReg, jobReg, resp >>

\* One more locked call fits into the history of a concurrent run.
MayRace == Len(hist) < MaxRacingCalls

\* Goroutines pushing at the back while others pop and read the size; the
\* calls that take the mutex are atomic with respect to each other.
ConcQueueNext ==
    \/ \E t \in Threads : PushBackStep(t)
    \/ MayRace /\ QPopFront
    \/ MayRace /\ QPopBack
    \/ MayRace /\ QSize

ConcQueueSpec == QueueInit /\ [][ConcQueueNext]_vars

\* ------------------------------------------------------------ control plane
\* Why a handler gives up before it looks at its registries: wrong HTTP
\* method, failed or short body read, body that is not the expected JSON.
PreChecks == {"ok", "method", "body", "json"}

NoResponseJob == 0

ErrorResponse(op, arg, message) ==
    [op |-> op, arg |-> arg, kind |-> "error", jobId |-> NoResponseJob, status |-> message]

\* SolrJobStatus is an int enumeration (iota): the number of each status.
StatusCode(st) ==
    CASE st = INIT -> 0 [] st = RUNNING -> 1 [] st = COMPLETED -> 2
      [] st = FAILED -> 3 [] st = PENDING -> 4

\* Variant of String whose array lists the names in lifecycle order.
StatusStringLifecycleOrder(code) ==
    << "INIT", "PENDING", "RUNNING", "COMPLETED", "FAILED" >>[code + 1]

\* SolrJobStatus.String / GetStatus: index into the array of names.
StatusString(code) ==
    << "INIT", "RUNNING", "COMPLETED", "FAILED", "PENDING" >>[code + 1]

\* Variant of GetNextId that numbers jobs from 0.
GetNextIdFromZero(reg) == Cardinality(DOMAIN reg)

\* SolrJobManager.GetNextId, RegisterJob and GetJob (a map from id to *SolrJob;
\* GetJob of an unknown id is nil).
GetNextId(reg) == Cardinality(DOMAIN reg) + 1

RegisterJob(reg, id, job) ==
    [i \in (DOMAIN reg) \cup {id} |-> IF i = id THEN job ELSE reg[i]]

NilJob == [status |-> "nil", solr |-> 0]

GetJob(reg, id) == IF id \in DOMAIN reg THEN reg[id] ELSE NilJob

\* Variant of GetSolrJob that leaves Status at its zero value.
GetSolrJobZeroStatus(solrId) == [status |-> INIT, solr |-> solrId]

\* solr.GetSolrJob: a job bound to its connection, in PENDING.
GetSolrJob(solrId) == [status |-> PENDING, solr |-> solrId]

\* Variant of the connection lookup that accepts every id.
SolrExistsAlways(n, solrId) == TRUE

\* _, exists := m.solr[solrId]: connections are stored under ids 1..n.
SolrExists(n, solrId) == solrId \in 1..n

\* Manager.RegisterSolr.
RegisterSolr(pre) ==
    /\ solrReg < MaxSolr
    /\ IF pre # "ok"
       THEN /\ resp' = ErrorResponse("register_solr", 0, pre)
            /\ UNCHANGED solrReg
       ELSE /\ solrReg' = solrReg + 1
            /\ resp' = [op |-> "register_solr", arg |-> 0, kind |-> "ok",
                        jobId |-> solrReg + 1, status |-> ""]
    /\ UNCHANGED << envVars, jobVars, pipeVars, lifeVars, q, hist, thr, jobReg >>

\* Manager.SubmitJob for a request that names connection solrId.
SubmitJob(pre, solrId) ==
    /\ q.n < MaxNodes
    /\ IF pre # "ok"
       THEN /\ resp' = ErrorResponse("submit_job", solrId, pre)
            /\ UNCHANGED << q, jobReg >>
       ELSE IF ~SolrExists(solrReg, solrId)
       THEN /\ resp' = ErrorResponse("submit_job", solrId, "No such Solr configuraion present")
            /\ UNCHANGED << q, jobReg >>
       ELSE LET id == GetNextId(jobReg)
                c  == q.n + 1
            IN  /\ jobReg' = RegisterJob(jobReg, id, GetSolrJob(solrId))
                /\ q' = PushBack(GetContainer(q, [kind |-> "job", id |-> id]), c)
                /\ resp' = [op |-> "submit_job", arg |-> solrId, kind |-> "ok",
                            jobId |-> id, status |-> ""]
    /\ UNCHANGED << envVars, jobVars, pipeVars, lifeVars, hist, thr, solrReg >>

\* Response of Manager.GetJobStatus for a well-formed request.
JobStatusResponse(reg, jobId) ==
    IF GetJob(reg, jobId) = NilJob
    THEN ErrorResponse("get_job_status", jobId, "No such job present")
    ELSE [op |-> "get_job_status", arg |-> jobId, kind |-> "ok", jobId |-> jobId,
          status |-> StatusString(StatusCode(GetJob(reg, jobId).status))]

\* Manager.GetJobStatus.
GetJobStatus(pre, jobId) ==
    /\ resp' = IF pre # "ok" THEN ErrorResponse("get_job_status", jobId, pre)
               ELSE JobStatusResponse(jobReg, jobId)
    /\ UNCHANGED << envVars, jobVars, pipeVars, lifeVars, q, hist, thr, solrReg, jobReg >>

\* The control plane handling one request after the other.
ControlNext ==
    \/ \E pre \in PreChecks : RegisterSolr(pre)
    \/ \E pre \in PreChecks, solrId \in 0..(MaxSolr + 1) : SubmitJob(pre, solrId)
    \/ \E pre \in PreChecks, jobId \in 0..(MaxNodes + 1) : GetJobStatus(pre, jobId)

ControlSpec == QueueInit /\ [][ControlNext]_vars

\* ------------------------------------------------- control plane, all routes
\* SolrJob.SetStatus called on the job registered under jobId (the registry
\* holds *SolrJob, so whoever holds the pointer can store a status).
JobSetStatus(jobId, newStatus) ==
    /\ jobId \in DOMAIN jobReg
    /\ jobReg' = [jobReg EXCEPT ![jobId].status = newStatus]
    /\ UNCHANGED << envVars, jobVars, pipeVars, lifeVars, q, hist, thr, solrReg, resp >>

\* Manager.CancelJob: the body is empty, so net/http answers 200 OK with an
\* empty body whatever the request was.
CancelJob(jobId) ==
    /\ resp' = [op |-> "cancel_job", arg |-> jobId, kind |-> "ok",
                jobId |-> NoResponseJob, status |-> ""]
    /\ UNCHANGED << envVars, jobVars, pipeVars, lifeVars, q, hist, thr, solrReg, jobReg >>

\* The four routes of StartHTTPServer handled one request after the other,
\* while holders of a job pointer store statuses.
ApiNext ==
    \/ ControlNext
    \/ \E jobId \in 0..(MaxNodes + 1) : CancelJob(jobId)
    \/ \E jobId \in 1..MaxRewritten, newStatus \in Statuses : JobSetStatus(jobId, newStatus)

ApiSpec == QueueInit /\ [][ApiNext]_vars

\* Only the four routes run, one request after the other; nobody else holds
\* a job or the queue.
RoutesNext ==
    \/ ControlNext
    \/ \E jobId \in 0..(MaxNodes + 1) : CancelJob(jobId)

RoutesSpec == QueueInit /\ [][RoutesNext]_vars

\* ---------------------------------------------------- concurrent submit-job
\* net/http runs every request in its own goroutine and neither the Manager
\* nor SolrJobManager takes a lock, so the statements of SubmitJob interleave.
\* Handler goroutine t keeps the connection id of its request in tmp and the
\* job id it obtained in node:
\*   "idle"      body parsed; _, exists := m.solr[SolrID]
\*   "nextid"    solrJobRequest.ID = m.j.GetNextId()
\*   "register"  GetSolrJob; m.j.RegisterJob(solrCore.ID, jobInstance)
\*   "push"      m.q.PushBack(GetContainer(jobInstance)); 201 response
SubmitStep(t, solrId) ==
    LET me == thr[t] IN
    /\ me.pc \in {"idle", "nextid", "register", "push"}
    /\ me.pc # "idle" => solrId = me.tmp
    /\ me.pc = "idle" =>
          q.n + Cardinality({u \in Threads : thr[u].pc # "idle"}) < MaxNodes
    /\ IF me.pc = "idle"
       THEN IF ~SolrExists(solrReg, solrId)
            THEN /\ resp' = ErrorResponse("submit_job", solrId, "No such Solr configuraion present")
                 /\ UNCHANGED << thr, jobReg, q, hist >>
            ELSE /\ thr' = [thr EXCEPT ![t] = [pc |-> "nextid", node |-> NilNode, tmp |-> solrId]]
                 /\ UNCHANGED << resp, jobReg, q, hist >>
       ELSE IF me.pc = "nextid"
       THEN /\ thr' = [thr EXCEPT ![t].pc = "register", ![t].node = GetNextId(jobReg)]
            /\ UNCHANGED << resp, jobReg, q, hist >>
       ELSE IF me.pc = "register"
       THEN /\ jobReg' = RegisterJob(jobReg, me.node, GetSolrJob(me.tmp))
            /\ thr' = [thr EXCEPT ![t].pc = "push"]
            /\ UNCHANGED << resp, q, hist >>
       ELSE /\ q' = PushBack(GetContainer(q, [kind |-> "job", id |-> me.node]), q.n + 1)
            /\ hist' = Record("SubmitJob", "ok", me.node)
            /\ resp' = [op |-> "submit_job", arg |-> me.tmp, kind |-> "ok",
                        jobId |-> me.node, status |-> ""]
            /\ thr' = [thr EXCEPT ![t] = [pc |-> "idle", node |-> NilNode, tmp |-> 0]]
            /\ UNCHANGED jobReg
    /\ UNCHANGED << envVars, jobVars, pipeVars, lifeVars, solrReg >>

\* Connections are registered and submit-job requests are served concurrently.
ConcSubmitNext ==
    \/ \E pre \in PreChecks : RegisterSolr(pre)
    \/ \E t \in Threads, solrId \in 1..MaxSolr : SubmitStep(t, solrId)

ConcSubmitSpec == QueueInit /\ [][ConcSubmitNext]_vars

\* ------------------------------------------------------- submit and execute
\* The repository has no caller of PopFront, Init or Operation: nothing takes
\* a job off the queue.  The executor below stands for whatever external
\* caller holds the registered job and calls Operation on it; the control
\* plane serves one connection, one job and the status queries for it.
JobSubmitted == 1 \in DOMAIN jobReg

ServiceNext ==
    \/ RegisterSolr("ok")
    \/ ~JobSubmitted /\ SubmitJob("ok", 1)
    \/ GetJobStatus("ok", 1)
    \/ JobSubmitted /\ Next

\* The index serves two non-empty pages and then an empty one, and the
\* training service accepts every POST.
ServiceInit ==
    Init /\ numPages = 2 /\ getFailAt = 0 /\ postFailAt = 0 /\ noTokenAt = 0

ServiceSpec == ServiceInit /\ [][ServiceNext]_vars

\* Every goroutine that can take a step is run, and the client keeps polling.
FairServiceSpec ==
    /\ ServiceSpec
    /\ WF_vars(GetJobStatus("ok", 1))
    /\ WF_vars(JobSubmitted /\ Operation)
    /\ WF_vars(JobSubmitted /\ Producer)
    /\ \A i \in Consumers : WF_vars(JobSubmitted /\ Consumer(i))
    /\ WF_vars(JobSubmitted /\ Waiter)

\* --------------------------------------------------------------- scenarios
\* The index holds K > 0 pages, every GET and every POST would succeed.
CleanRun == numPages > 0 /\ getFailAt = 0 /\ postFailAt = 0

\* The index answers the very first pull with an empty docs array.
EmptyIndex == numPages = 0 /\ getFailAt = 0

\* The index is healthy and the training service rejects one of the batches.
PostFailRun == postFailAt \in 1..numPages /\ getFailAt = 0

\* Cursors a puller that follows the index visits: the sentinel, then the
\* token of every page it was given, up to the failing GET or the response
\* without a token if there is one.
ExpectedCursors ==
    LET all  == numPages + 1
        tok  == IF noTokenAt = 0 THEN all ELSE noTokenAt
        fail == IF getFailAt = 0 THEN all ELSE getFailAt
        len  == IF tok < fail THEN tok ELSE fail
    IN
    [k \in 1..len |-> IF k = 1 THEN Sentinel ELSE Token(k - 1)]

\* Every element of 1..n occurs exactly once in the sequence sq.
EachOnce(sq, n) ==
    /\ Len(sq) = n
    /\ \A p \in 1..n : Cardinality({k \in 1..Len(sq) : sq[k] = p}) = 1

\* ------------------------------------------------------------------ claims

\* C1: every call of Operation eventually returns: once the producer stage
\* and all consumer stages have finished, the result-sink loop ends and
\* Operation returns to its caller.
OperationReturns == AllStagesDone ~> (pcMain = "returned")

\* C2: the status changes made by Operation are visible on the registered
\* job: RUNNING while Operation executes, COMPLETED or FAILED once it has
\* returned.
StatusVisibleOnRegisteredJob ==
    /\ pcMain \in {"sink", "wait"} => jobStatus = RUNNING
    /\ pcMain = "returned" => jobStatus \in {COMPLETED, FAILED}

\* C3: with K > 0 non-empty pages, then an empty page, and no failing POST,
\* the stages hand no error to the final wait, and Operation ends COMPLETED
\* with a nil error.
CleanRunCompletes ==
    CleanRun =>
        /\ AllStagesDone => gErr = Nil
        /\ pcMain = "returned" => (opStatus = COMPLETED /\ retErr = Nil)

\* C4: with K > 0 non-empty pages, then an empty page, and no failing POST,
\* exactly the K batches are sent on the batch channel in cursor order and
\* each is POSTed by exactly one consumer.
CleanRunDeliversEveryBatch ==
    (CleanRun /\ AllStagesDone) =>
        /\ sent = [p \in 1..numPages |-> p]
        /\ EachOnce(posted, numPages)

\* C5: when the first pull finds an empty page, that pull yields the
\* no-more-data outcome, no batch is sent, and the job ends FAILED.
EmptyIndexYieldsNoMoreData ==
    (EmptyIndex /\ Len(requested) >= 1) =>
        /\ prodErr = NoMoreDocuments
        /\ sent = << >>
        /\ pcMain = "returned" => opStatus = FAILED

\* C6: when one of the dispatch POSTs fails, the job ends FAILED and
\* Operation returns a stage error that is neither nil nor the cancellation
\* error.
PostFailureFailsJob ==
    PostFailRun ~> (/\ pcMain = "returned"
                    /\ opStatus = FAILED
                    /\ retErr \notin {Nil, Canceled})

\* C7: the error message of a job is empty as long as no stage has failed,
\* and a stage failure is recorded as the job's error message.
FailureRecordedOnJob ==
    /\ [](gErr = Nil => jobErrorMessage = "")
    /\ (gErr # Nil) ~> (jobErrorMessage = gErr)

\* No batch ever reaches a consumer, so no POST is ever begun (the case C8
\* is about does not arise in any run).
NoPostEver == posted = << >> /\ sent = << >> /\ pcProd # "send"

\* C9: once a stage has returned an error, every stage goroutine returns
\* and nothing stays blocked on the batch channel or the results channel.
CancellationPropagates ==
    (gErr # Nil) ~> (AllStagesDone /\ pcMain # "sink")

\* The errgroup goroutines themselves do return after a stage error.
StageGoroutinesReturn == (gErr # Nil) ~> AllStagesDone

\* C10: the puller requests the sentinel first and then every cursor token
\* the index returned, each once and in the order returned.
PullerVisitsEveryCursor ==
    pcProd \in {"exit", "done"} => requested = ExpectedCursors


\* Error a pull ends with when the response has an empty docs array.
EmptyDocsOutcome == solrPuller(Sentinel, 1, 0, 0).err

LifecycleEdges ==
    { << PENDING, INIT >>, << INIT, PENDING >>, << PENDING, RUNNING >>,
      << RUNNING, COMPLETED >>, << RUNNING, FAILED >> }

\* C12: every change of the job's status is one of the edges of the job state
\* machine, whatever sequence of Init, Operation and SetStatus calls is made.
StatusFollowsEdges ==
    [][(jobStatus' # jobStatus) => (<< jobStatus, jobStatus' >> \in LifecycleEdges)]_vars

\* C13: once the job's status is COMPLETED or FAILED no operation changes it.
TerminalAbsorbing ==
    [][(jobStatus \in {COMPLETED, FAILED}) => (jobStatus' = jobStatus)]_vars


\* Nodes met when walking from node c via next, at most k of them.
RECURSIVE Walk(_, _, _)
Walk(qq, c, k) ==
    IF c = NilNode \/ k = 0 THEN << >>
    ELSE << c >> \o Walk(qq, qq.next[c], k - 1)

\* The walk from front.
Chain(qq) == Walk(qq, qq.front, MaxNodes + 1)

\* The history is K PushBack calls followed by PopFront calls only.
PushesThenPops(h, K) ==
    /\ K <= Len(h)
    /\ \A i \in 1..Len(h) : h[i].op = (IF i <= K THEN "PushBack" ELSE "PopFront")

\* C14: from the empty queue, K PushBack calls followed by K PopFront calls
\* return the K pushed items in insertion order with found=true, and one more
\* PopFront returns found=false.
QueueIsFifo ==
    \A K \in 0..MaxNodes :
        PushesThenPops(hist, K) =>
            \A i \in (K + 1)..Len(hist) :
                IF i <= 2 * K
                THEN hist[i].res = "found" /\ hist[i].item = hist[i - K].item
                ELSE hist[i].res = "empty"

\* C15: IsEmpty() is true exactly when Size() is 0.
EmptyIffSizeZero == IsEmpty(q) <=> (Size(q) = 0)

\* C16: size is the number of nodes reachable from front via next, the walk
\* ends at back, and size is never negative.
SizeCountsNodes ==
    /\ Size(q) = Len(Chain(q))
    /\ Size(q) >= 0
    /\ IF Chain(q) = << >> THEN q.back = NilNode
       ELSE q.back = Chain(q)[Len(Chain(q))]

\* The step is a call of op: the call is the last entry of the history.
Called(op) == hist' # hist /\ hist'[Len(hist')].op = op

\* C17: PopFront and PopBack on an empty queue return found=false and leave
\* front, back and size as they were.
PopOnEmptyIsNoop ==
    [][((Called("PopFront") \/ Called("PopBack")) /\ q.front = NilNode /\ q.back = NilNode)
         => (/\ hist'[Len(hist')].res = "empty"
             /\ q'.front = q.front /\ q'.back = q.back /\ q'.size = q.size)]_vars

\* Both pops have been called on a queue that was emptied by earlier pops.
PopOnEmptyIsNoopWitness ==
    /\ Len(hist) >= 4
    /\ hist[Len(hist)].op = "PopBack" /\ hist[Len(hist)].res = "empty"
    /\ hist[Len(hist) - 1].op = "PopFront" /\ hist[Len(hist) - 1].res = "empty"
    /\ \E i \in 1..Len(hist) : hist[i].res = "found"
    /\ q.front = NilNode /\ q.back = NilNode


\* Items handed out by a pop so far.
Popped == { hist[i].item : i \in { k \in 1..Len(hist) : hist[k].res = "found" } }

\* C18: the queue is safe under concurrent calls: when no call is in progress
\* every pushed item that was not popped is linked in the queue, and size is
\* the number of linked nodes.
QueueThreadSafe ==
    (\A t \in Threads : thr[t].pc = "idle") =>
        /\ { Chain(q)[i] : i \in 1..Len(Chain(q)) } = (1..q.n) \ Popped
        /\ Size(q) = Len(Chain(q))


\* C19: a successful submit-job for a registered connection creates exactly
\* one job in PENDING under the returned id, appends exactly one node holding
\* that job at the back of the queue, and a get-status for the id reports
\* PENDING.
SubmitRegistersAndEnqueues ==
    [][(resp'.op = "submit_job" /\ resp'.kind = "ok") =>
        LET id == resp'.jobId IN
        /\ resp'.arg \in 1..solrReg
        /\ id \notin DOMAIN jobReg
        /\ DOMAIN jobReg' = (DOMAIN jobReg) \cup {id}
        /\ \A i \in DOMAIN jobReg : jobReg'[i] = jobReg[i]
        /\ jobReg'[id].status = PENDING
        /\ q'.n = q.n + 1
        /\ Chain(q') = Chain(q) \o << q'.n >>
        /\ q'.back = q'.n
        /\ q'.val[q'.n] = [kind |-> "job", id |-> id]
        /\ Size(q') = Size(q) + 1
        /\ JobStatusResponse(jobReg', id).kind = "ok"
        /\ JobStatusResponse(jobReg', id).status = "PENDING"]_vars

\* A second job has just been submitted and is linked behind the first.
SubmitRegistersAndEnqueuesWitness ==
    /\ resp.op = "submit_job" /\ resp.kind = "ok" /\ resp.jobId = 2
    /\ Chain(q) = << 1, 2 >>
    /\ q.val[2] = [kind |-> "job", id |-> 2]
    /\ jobReg[2].status = PENDING

\* C20: submit-job naming a connection id that was never registered answers
\* with an error and leaves the job registry, the queue and the connection
\* registry as they were.
SubmitUnknownSolrChangesNothing ==
    [][(resp'.op = "submit_job" /\ resp'.arg \notin 1..solrReg) =>
        (/\ resp'.kind = "error"
         /\ jobReg' = jobReg /\ q' = q /\ solrReg' = solrReg)]_vars

\* With one connection and one job registered, a submit-job naming
\* connection 2 was refused.
SubmitUnknownSolrChangesNothingWitness ==
    /\ resp.op = "submit_job" /\ resp.kind = "error" /\ resp.arg = 2
    /\ resp.status = "No such Solr configuraion present"
    /\ solrReg = 1
    /\ Len(Chain(q)) = 1 /\ DOMAIN jobReg = {1}


\* The handler gave up before looking at the registry.
Malformed(r) == r.kind = "error" /\ r.status \in (PreChecks \ {"ok"})

\* Name under which each status is known.
NameOf(st) ==
    CASE st = INIT -> "INIT" [] st = PENDING -> "PENDING" [] st = RUNNING -> "RUNNING"
      [] st = COMPLETED -> "COMPLETED" [] st = FAILED -> "FAILED"

\* C21: get-status for a registered job id reports the name of the status the
\* job has at that moment, for an unknown id it answers with an error, and in
\* both cases the job registry (with every job in it), the queue and the
\* connection registry stay as they were.
GetStatusReportsAndPreserves ==
    [][(resp'.op = "get_job_status" /\ resp' # resp) =>
        /\ jobReg' = jobReg /\ q' = q /\ solrReg' = solrReg
        /\ ~Malformed(resp') =>
              IF resp'.arg \in DOMAIN jobReg
              THEN /\ resp'.kind = "ok"
                   /\ resp'.jobId = resp'.arg
                   /\ resp'.status = NameOf(jobReg[resp'.arg].status)
              ELSE resp'.kind = "error"]_vars

\* The status of the second of two queued jobs was asked after the job had
\* been set to COMPLETED.
GetStatusReportsAndPreservesWitness ==
    /\ resp.op = "get_job_status" /\ resp.kind = "ok" /\ resp.arg = 2
    /\ resp.status = "COMPLETED"
    /\ jobReg[2].status = COMPLETED
    /\ Len(Chain(q)) = 2

\* C22: cancel-job answers with a non-success result that carries a message,
\* never with plain success and an empty response, and leaves every job, the
\* job registry and the queue as they were.
CancelAnswersNotImplemented ==
    [][(resp'.op = "cancel_job" /\ resp' # resp) =>
        /\ resp'.kind = "error"
        /\ resp'.status # ""
        /\ jobReg' = jobReg /\ q' = q]_vars


\* C23: concurrent submit-job requests get distinct job ids and every job
\* stays registered: once all requests are answered, no two successful
\* submissions returned the same id, every returned id is registered, and the
\* registry holds as many jobs as there were successful submissions.
ConcurrentSubmitsKeepJobs ==
    (\A t \in Threads : thr[t].pc = "idle") =>
        /\ \A i, j \in 1..Len(hist) : i # j => hist[i].item # hist[j].item
        /\ \A i \in 1..Len(hist) : hist[i].item \in DOMAIN jobReg
        /\ Cardinality(DOMAIN jobReg) = Len(hist)


\* The step is the return of an Init call.
InitReturns == pcJobInit # "idle" /\ pcJobInit' = "idle"

\* C24: an Init call in which every remote call made succeeded returns no
\* error and leaves the status at PENDING; the call sets INIT first and
\* starts with GET /stream/status, followed only by POST /stream/start.
InitSucceedsWhenCallsSucceed ==
    [][/\ (pcJobInit = "idle" /\ pcJobInit' # "idle") => jobStatus' = INIT
       /\ InitReturns =>
            /\ initCalls' \in { << "GET /stream/status" >>,
                                << "GET /stream/status", "POST /stream/start" >> }
            /\ initRet' \notin {TransportError, PostError} =>
                  (initRet' = Nil /\ jobStatus' = PENDING)]_vars

\* C25: an Init call that fails (the status GET errors, the payload cannot be
\* parsed or the start POST errors) returns the error right after the failing
\* step without a further remote call, and leaves the job in INIT with an
\* empty error message.
InitFailureLeavesInit ==
    [][(InitReturns /\ initRet' # Nil) =>
        /\ jobStatus' = INIT
        /\ jobErrorMessage' = ""
        /\ initRet' \in {TransportError, InvalidUnmarshalError} =>
              initCalls' = << "GET /stream/status" >>
        /\ initRet' = PostError =>
              initCalls' = << "GET /stream/status", "POST /stream/start" >>]_vars

\* An Init call has returned the parse error after its single GET.
InitFailureLeavesInitWitness ==
    /\ pcJobInit = "idle"
    /\ initRet = InvalidUnmarshalError
    /\ initCalls = << "GET /stream/status" >>
    /\ jobStatus = INIT


\* C26: a submitted job is eventually executed: with two non-empty pages, an
\* empty page after them and a training service that accepts every POST, a
\* get-status query for the submitted job eventually answers COMPLETED.
SubmittedJobCompletes ==
    JobSubmitted ~> (/\ resp.op = "get_job_status" /\ resp.arg = 1
                     /\ resp.kind = "ok" /\ resp.status = "COMPLETED")


\* The callback calls made with a nil error, in order.
IsNilCall(c) == c.err = Nil
NilCalls == SelectSeq(called, IsNilCall)

\* C27: PullSolrData calls the callback once per non-empty page with that
\* page's batch and a nil error, before it requests the next page, and with a
\* non-nil error only for the pull that ends pagination.
CallbackOncePerPage ==
    /\ Len(requested) <= Len(NilCalls) + 1
    /\ \A k \in 1..Len(called) : called[k].err # Nil => k = Len(called)
    /\ (getFailAt = 0 /\ noTokenAt = 0 /\ pcProd \in {"exit", "done"} /\ prodErr # Canceled)
          => NilCalls = [k \in 1..numPages |-> [data |-> k, err |-> Nil]]


\* C29: the producer stage closes the batch channel exactly once, when its
\* function returns because pagination ended, and never sends on it
\* afterwards; as a result every consumer eventually leaves its receive loop.
BatchChannelClosedOnce ==
    /\ [][(tdClosed' /\ ~tdClosed) =>
            (pcProd \in {"pull", "send", "sent"} /\ pcProd' = "exit")]_vars
    /\ [][tdClosed => (tdClosed' /\ pcProd' \in {"exit", "done"})]_vars
    /\ [](pcProd \in {"exit", "done"} => tdClosed)
    /\ (pcProd = "pull") ~> (tdClosed /\ \A i \in Consumers : pcCons[i] = "done")

\* Pagination over a non-empty index ended with the decode error, the channel
\* is closed and every consumer has returned.
BatchChannelClosedOnceWitness ==
    /\ numPages >= 1
    /\ prodErr = InvalidUnmarshalError
    /\ pcProd = "done"
    /\ tdClosed
    /\ \A i \in Consumers : pcCons[i] = "done"


\* A status write by Operation that stores COMPLETED or FAILED.
TerminalWrite == opStatus' # opStatus /\ opStatus' \in {COMPLETED, FAILED}

\* Operation stores a terminal status only after g.Wait() has returned, at
\* most once, and COMPLETED only when no stage returned an error.
TerminalWriteIsGuarded ==
    [][TerminalWrite =>
         /\ pcMain = "wait" /\ AllStagesDone
         /\ opStatus \notin {COMPLETED, FAILED}
         /\ opStatus' = COMPLETED => gErr = Nil]_vars

\* C30: within one run of Operation the terminal status is written once, by
\* the calling goroutine, only after all stages have finished; it is
\* COMPLETED only if no stage returned an error, and COMPLETED and FAILED are
\* never both written.
TerminalStatusWrittenOnce ==
    /\ TerminalWriteIsGuarded
    /\ (pcMain = "sink") ~> (opStatus \in {COMPLETED, FAILED})


\* The step is a pop that hands out the only node of the queue.
PopsLastNode ==
    /\ Called("PopFront") \/ Called("PopBack")
    /\ hist'[Len(hist')].res = "found"
    /\ Len(Chain(q)) = 1

\* C31: a pop that removes the last remaining node leaves front and back
\* both nil, and in every state front is nil exactly when back is nil.
EndsNilTogether ==
    /\ [](q.front = NilNode <=> q.back = NilNode)
    /\ [][PopsLastNode => (q'.front = NilNode /\ q'.back = NilNode)]_vars

\* PopBack has just handed out the only node of a queue that, before, had
\* been emptied by PopFront.
EndsNilTogetherWitness ==
    /\ Len(hist) >= 4
    /\ hist[Len(hist)].op = "PopBack" /\ hist[Len(hist)].res = "found"
    /\ \E i \in 1..(Len(hist) - 1) : hist[i].op = "PopFront" /\ hist[i].res = "found"
    /\ q.front = NilNode /\ q.back = NilNode

\* Nodes linked in the queue.
Linked(qq) == { Chain(qq)[i] : i \in 1..Len(Chain(qq)) }

\* C32: after PopFront or PopBack has removed a node, the node's prv and next
\* are nil and no node still in the queue points to it.
RemovalSeversLinks ==
    [][((Called("PopFront") \/ Called("PopBack")) /\ hist'[Len(hist')].res = "found") =>
        LET c == hist'[Len(hist')].item IN
        /\ q'.prv[c] = NilNode /\ q'.next[c] = NilNode
        /\ \A d \in Linked(q') : q'.prv[d] # c /\ q'.next[d] # c]_vars


\* C33: PeekFront and PeekBack leave the queue (front, back, size and every
\* link) as it is and give the outcome and item that PopFront, respectively
\* PopBack, would give if called in the same state.
PeekAgreesWithPop ==
    [][/\ Called("PeekFront") =>
            /\ q' = q
            /\ hist'[Len(hist')].res = PopFront(q).res
            /\ hist'[Len(hist')].item = PopFront(q).item
       /\ Called("PeekBack") =>
            /\ q' = q
            /\ hist'[Len(hist')].res = PopBack(q).res
            /\ hist'[Len(hist')].item = PopBack(q).item]_vars

\* Both ends of a queue of at least two items have been peeked and the items
\* differ.
PeekAgreesWithPopWitness ==
    /\ Len(hist) >= 4
    /\ hist[Len(hist)].op = "PeekBack" /\ hist[Len(hist)].res = "found"
    /\ hist[Len(hist) - 1].op = "PeekFront" /\ hist[Len(hist) - 1].res = "found"
    /\ hist[Len(hist)].item # hist[Len(hist) - 1].item
    /\ hist[Len(hist)].item = q.back /\ hist[Len(hist) - 1].item = q.front

\* C34: in every queue state, the empty queue included, PushFront(x) followed
\* at once by PopFront returns x with found=true and puts front, back and
\* size back to their values before the push; likewise PushBack(x) followed
\* by PopBack.
PushPopRoundTrip ==
    [][/\ Called("PushFront") =>
            LET r == PopFront(q') IN
            /\ r.res = "found" /\ r.item = hist'[Len(hist')].item
            /\ r.q.front = q.front /\ r.q.back = q.back /\ r.q.size = q.size
       /\ Called("PushBack") =>
            LET r == PopBack(q') IN
            /\ r.res = "found" /\ r.item = hist'[Len(hist')].item
            /\ r.q.front = q.front /\ r.q.back = q.back /\ r.q.size = q.size]_vars

\* C35: while only register-connection, submit-job, get-status and cancel-job
\* run, one after the other, the queue's size is the number of registered
\* jobs, the k-th submission holds job id k and is the k-th node of the
\* queue, and every registered job is PENDING.
RoutesKeepJobsQueued ==
    LET n == Cardinality(DOMAIN jobReg) IN
    /\ DOMAIN jobReg = 1..n
    /\ Size(q) = n
    /\ Chain(q) = [k \in 1..n |-> k]
    /\ \A k \in 1..n : /\ q.val[k] = [kind |-> "job", id |-> k]
                       /\ jobReg[k].status = PENDING

\* Three jobs were submitted and a cancel-job request has been answered.
RoutesKeepJobsQueuedWitness ==
    /\ DOMAIN jobReg = {1, 2, 3}
    /\ Size(q) = 3
    /\ resp.op = "cancel_job"

====
